---- MODULE Spec2Model ----
(***************************************************************************)
(* The light client's detector: detectDivergence fans one comparator       *)
(* goroutine out per witness (compareNewHeaderWithWitness), drains the     *)
(* shared buffered channel errc, removes the witnesses that misbehaved and *)
(* decides whether the primary's header is trusted.                        *)
(*                                                                         *)
(* Witness indices are 1-based here (Go: 0-based); the witness at index w  *)
(* of the initial registry is provider w.                                  *)
(***************************************************************************)
EXTENDS Integers, Sequences, FiniteSets, TLC

\* ------------------------------------------------------------------ bounds
MaxWitnesses == 2

Wit == 1..MaxWitnesses

\* the shortest trace detectDivergence accepts (line 28: len(primaryTrace) < 2)
MinTraceLen == 2

\* --------------------------------------------------- the primary's header
\* h.Height, h.Time and h.Hash() of lastVerifiedHeader: the height and the
\* time are arbitrary, the blocks of the witnesses are placed around them
TargetHeight == 2
PrimaryTime == 2
PrimaryHash == "hashP"
lastVerifiedHeader == [height |-> TargetHeight, time |-> PrimaryTime, hash |-> PrimaryHash]

\* ------------------------------------------------------ provider responses
Times == (PrimaryTime - 1)..(PrimaryTime + 1)
Hashes == {PrimaryHash, "hashQ"}
\* the light blocks a witness may answer with: at the target height with
\* either hash, below it with a time before, equal to or after the primary's,
\* and above it
Blocks ==
    {[height |-> TargetHeight, time |-> PrimaryTime, hash |-> x] : x \in Hashes}
      \cup {[height |-> TargetHeight - 1, time |-> t, hash |-> "hashQ"] : t \in Times}
      \cup {[height |-> TargetHeight + 1, time |-> PrimaryTime + 1, hash |-> "hashQ"]}
NoBlock == [height |-> 0, time |-> 0, hash |-> "none"]

ErrNoResponse == "ErrNoResponse"
ErrLightBlockNotFound == "ErrLightBlockNotFound"
ErrHeightTooHigh == "ErrHeightTooHigh"
ErrBadLightBlock == "ErrBadLightBlock"
ErrOther == "ErrOther"
ProviderErrors == {ErrNoResponse, ErrLightBlockNotFound, ErrHeightTooHigh, ErrBadLightBlock, ErrOther}

\* the errors the requests of getTargetBlockOrLatest are answered with: one of
\* each kind its callers and the detector tell apart (no answer, an invalid
\* block, an unclassified error)
ReconcileErrors == {ErrNoResponse, ErrBadLightBlock, ErrOther}

\* witness.LightBlock(ctx, height) failing with one of errs or answering with
\* a block: height 0 asks for the latest block; any other height is answered
\* with a block of that height
LightBlock(height, errs) ==
    {[err |-> e, block |-> NoBlock] : e \in errs}
      \cup {[err |-> "nil", block |-> b] :
              b \in {x \in Blocks : height = 0 \/ x.height = height}}

\* ------------------------------------------- values written to errc
NilErr == [kind |-> "nil", idx |-> 0, reason |-> "none"]
errConflictingHeaders(w) == [kind |-> "errConflictingHeaders", idx |-> w, reason |-> "none"]
errBadWitness(e, w) == [kind |-> "errBadWitness", idx |-> w, reason |-> e]
\* a provider error passed through unwrapped
PlainErr(e) == [kind |-> e, idx |-> 0, reason |-> "none"]

\* ------------------------------------------- results of detectDivergence
Success == "nil"
ErrInvalidTrace == "nil or single block primary trace"
ErrNoWitnesses == "ErrNoWitnesses"
ErrFailedHeaderCrossReferencing == "ErrFailedHeaderCrossReferencing"
ErrRemoveWitnesses == "removeWitnesses error"

VARIABLES
    \* Client and detectDivergence
    witnesses,          \* c.witnesses: the registry, a sequence of providers
    providerMutex,      \* c.providerMutex: TRUE while locked
    traceLen,           \* len(primaryTrace), 0 for nil
    dpc,                \* position of detectDivergence
    chanCap,            \* cap(errc)
    errc,               \* the buffered channel: entries [err, from]
    i,                  \* loop counter of the receive loop
    headerMatched,
    witnessesToRemove,
    result,             \* the value detectDivergence returned
    removeFailed,       \* removeWitnesses returned an error
    got,                \* history: number of values received from each goroutine
    registry0,          \* history: the registry when detectDivergence was called
    other,              \* another user of c.providerMutex: "in" while it holds it
    \* one compareNewHeaderWithWitness goroutine per witness index
    cpc,                \* position of the goroutine
    lightBlock,         \* its local lightBlock
    err,                \* its local err
    pend,               \* the sends it still has to perform, in order
    sent,               \* history: the values it has written to errc
    reqs,               \* history: number of provider requests it made
    waits,              \* history: number of times it slept
    hashCmp,            \* history: outcome of bytes.Equal, "none" if not run
    latest              \* the local lightBlock of getTargetBlockOrLatest

dvars == <<witnesses, providerMutex, traceLen, dpc, chanCap, i, headerMatched,
           witnessesToRemove, result, removeFailed, got, registry0, other>>
cvars == <<cpc, lightBlock, err, pend, sent, reqs, waits, hashCmp, latest>>
vars == <<dvars, errc, cvars>>

Range(s) == {s[k] : k \in 1..Len(s)}

Init ==
    /\ \E n \in 0..MaxWitnesses : witnesses = [k \in 1..n |-> k]
    /\ registry0 = witnesses
    /\ other = "out"
    /\ traceLen \in 0..MinTraceLen
    /\ providerMutex = FALSE
    /\ dpc = "entry"
    /\ chanCap = 0
    /\ errc = <<>>
    /\ i = 0
    /\ headerMatched = FALSE
    /\ witnessesToRemove = <<>>
    /\ result = "none"
    /\ removeFailed = FALSE
    /\ got = [w \in Wit |-> 0]
    /\ cpc = [w \in Wit |-> "idle"]
    /\ lightBlock = [w \in Wit |-> NoBlock]
    /\ err = [w \in Wit |-> "nil"]
    /\ pend = [w \in Wit |-> <<>>]
    /\ sent = [w \in Wit |-> <<>>]
    /\ reqs = [w \in Wit |-> 0]
    /\ waits = [w \in Wit |-> 0]
    /\ hashCmp = [w \in Wit |-> "none"]
    /\ latest = [w \in Wit |-> NoBlock]

\* ===================================================== the comparator
\* variant: the comparison of the two hashes inverted
CompareHashes_Inverted(h, lb, w) ==
    IF lb.hash = h.hash
      THEN <<errConflictingHeaders(w), NilErr>>
      ELSE <<NilErr>>

\* lines 189-194: the hash comparison and the sends that follow it
CompareHashes(h, lb, w) ==
    IF lb.hash # h.hash
      THEN <<errConflictingHeaders(w), NilErr>>
      ELSE <<NilErr>>

\* variant: lightBlock.Time.After(h.Time), an equal time is no conflict
TimeConflict_StrictAfter(lb, h) == lb.time > h.time

\* !lightBlock.Time.Before(h.Time)
TimeConflict(lb, h) == ~(lb.time < h.time)

\* the switch on the error of the first request, witness.LightBlock(ctx, h.Height)
FirstSends(e, w) ==
    IF e \in {ErrNoResponse, ErrLightBlockNotFound}
      THEN <<PlainErr(e)>>
      ELSE <<errBadWitness(e, w)>>

\* what is sent when getTargetBlockOrLatest fails, before and after the wait
ReconcileErrSends(e, w, afterWait) ==
    IF afterWait THEN <<errBadWitness(e, w)>> ELSE <<PlainErr(e)>>

\* variant: a witness that is still behind is reported as conflicting
StillBehindSends_Conflicting(w) == <<errConflictingHeaders(w)>>

\* what is sent when the witness is still behind after the wait (line 179)
StillBehindSends(w) == <<PlainErr(ErrNoResponse)>>

\* the goroutine runs on to its sends s, in order, with locals b and e: the
\* first value is written at once when the buffer has room, otherwise the
\* goroutine blocks in the send; further values are written by Send
Emit(w, b, e, s) ==
    /\ lightBlock' = [lightBlock EXCEPT ![w] = b]
    /\ err' = [err EXCEPT ![w] = e]
    /\ IF Len(errc) < chanCap
         THEN /\ errc' = Append(errc, [err |-> Head(s), from |-> w])
              /\ sent' = [sent EXCEPT ![w] = Append(@, Head(s))]
              /\ pend' = [pend EXCEPT ![w] = Tail(s)]
              /\ cpc' = [cpc EXCEPT ![w] = IF Len(s) = 1 THEN "done" ELSE "send"]
         ELSE /\ pend' = [pend EXCEPT ![w] = s]
              /\ cpc' = [cpc EXCEPT ![w] = "send"]
              /\ UNCHANGED <<errc, sent>>

\* the goroutine leaves the switch with block b and compares the hashes
ToCompare(w, b) ==
    /\ hashCmp' = [hashCmp EXCEPT ![w] =
                     IF b.hash = lastVerifiedHeader.hash THEN "equal" ELSE "differ"]
    /\ Emit(w, b, "nil", CompareHashes(lastVerifiedHeader, b, w))

\* the goroutine sends s and returns without comparing hashes
ToSend(w, b, e, s) ==
    /\ Emit(w, b, e, s)
    /\ UNCHANGED hashCmp

\* line 113 and the switch on its error
Fetch(w) ==
    /\ cpc[w] = "fetch"
    /\ reqs' = [reqs EXCEPT ![w] = @ + 1]
    /\ \E r \in LightBlock(lastVerifiedHeader.height, ProviderErrors) :
         IF r.err = "nil" THEN ToCompare(w, r.block)
         ELSE IF r.err = ErrHeightTooHigh
           THEN /\ cpc' = [cpc EXCEPT ![w] = "latest1"]
                /\ err' = [err EXCEPT ![w] = r.err]
                /\ lightBlock' = [lightBlock EXCEPT ![w] = r.block]
                /\ UNCHANGED <<pend, hashCmp, errc, sent>>
         ELSE ToSend(w, r.block, r.err, FirstSends(r.err, w))
    /\ UNCHANGED <<dvars, waits, latest>>

\* variant: a latest block at the target height is fetched again
ReconcileCase_Refetch(b, height) ==
    IF b.height >= height THEN "above" ELSE "behind"

\* lines 218-232: what getTargetBlockOrLatest does with the latest block b
ReconcileCase(b, height) ==
    IF b.height = height THEN "target"
    ELSE IF b.height > height THEN "above"
    ELSE "behind"

\* getTargetBlockOrLatest, its request for the latest block (line 213), and
\* what the caller does with the outcome (lines 133-149 and 157-180)
Latest(w) ==
    /\ cpc[w] \in {"latest1", "latest2"}
    /\ reqs' = [reqs EXCEPT ![w] = @ + 1]
    /\ LET afterWait == cpc[w] = "latest2"
           h == lastVerifiedHeader
       IN \E r \in LightBlock(0, ReconcileErrors) :
            IF r.err # "nil"
              THEN /\ ToSend(w, NoBlock, r.err, ReconcileErrSends(r.err, w, afterWait))
                   /\ UNCHANGED latest
            ELSE IF ReconcileCase(r.block, h.height) = "target"
              THEN /\ ToCompare(w, r.block)
                   /\ UNCHANGED latest
            ELSE IF ReconcileCase(r.block, h.height) = "above"
              THEN /\ cpc' = [cpc EXCEPT ![w] = IF afterWait THEN "target2" ELSE "target1"]
                   /\ latest' = [latest EXCEPT ![w] = r.block]
                   /\ UNCHANGED <<lightBlock, err, pend, hashCmp, errc, sent>>
            ELSE IF TimeConflict(r.block, h)
              THEN /\ ToSend(w, r.block, "nil", <<errConflictingHeaders(w)>>)
                   /\ UNCHANGED latest
            ELSE IF afterWait
              THEN /\ ToSend(w, r.block, "nil", StillBehindSends(w))
                   /\ UNCHANGED latest
            ELSE /\ cpc' = [cpc EXCEPT ![w] = "sleep"]
                 /\ lightBlock' = [lightBlock EXCEPT ![w] = r.block]
                 /\ err' = [err EXCEPT ![w] = "nil"]
                 /\ UNCHANGED <<pend, hashCmp, errc, sent, latest>>
    /\ UNCHANGED <<dvars, waits>>

\* getTargetBlockOrLatest, its request at the target height (line 228); its
\* locals are gone once it has returned
Target(w) ==
    /\ cpc[w] \in {"target1", "target2"}
    /\ reqs' = [reqs EXCEPT ![w] = @ + 1]
    /\ latest' = [latest EXCEPT ![w] = NoBlock]
    /\ \E r \in LightBlock(lastVerifiedHeader.height, ReconcileErrors) :
         IF r.err # "nil"
           THEN ToSend(w, NoBlock, r.err, ReconcileErrSends(r.err, w, cpc[w] = "target2"))
           ELSE ToCompare(w, r.block)
    /\ UNCHANGED <<dvars, waits>>

\* time.Sleep(2*c.maxClockDrift + c.maxBlockLag)
Sleep(w) ==
    /\ cpc[w] = "sleep"
    /\ waits' = [waits EXCEPT ![w] = @ + 1]
    /\ cpc' = [cpc EXCEPT ![w] = "latest2"]
    /\ UNCHANGED <<dvars, errc, lightBlock, err, pend, sent, reqs, hashCmp, latest>>

\* errc <- v of a goroutine that was blocked in the send or has a second
\* value to write: blocks while the buffer is full
Send(w) ==
    /\ cpc[w] = "send"
    /\ Len(errc) < chanCap
    /\ errc' = Append(errc, [err |-> Head(pend[w]), from |-> w])
    /\ sent' = [sent EXCEPT ![w] = Append(@, Head(pend[w]))]
    /\ pend' = [pend EXCEPT ![w] = Tail(@)]
    /\ cpc' = [cpc EXCEPT ![w] = IF Len(pend[w]) = 1 THEN "done" ELSE "send"]
    /\ UNCHANGED <<dvars, lightBlock, err, reqs, waits, hashCmp, latest>>

\* ===================================================== the detector
\* variant: a trace of a single block is accepted
InvalidTrace_OffByOne(n) == n < MinTraceLen - 1

\* line 28: primaryTrace == nil || len(primaryTrace) < 2
InvalidTrace(n) == n < MinTraceLen

\* lines 28-30
CheckTrace ==
    /\ dpc = "entry"
    /\ IF InvalidTrace(traceLen)
         THEN /\ result' = ErrInvalidTrace
              /\ dpc' = "done"
         ELSE /\ dpc' = "lock"
              /\ UNCHANGED result
    /\ UNCHANGED <<witnesses, providerMutex, traceLen, chanCap, i, headerMatched,
                   witnessesToRemove, removeFailed, got, registry0, other, errc, cvars>>

\* c.providerMutex.Lock(): blocks while the mutex is held
Lock ==
    /\ dpc = "lock"
    /\ providerMutex = FALSE
    /\ providerMutex' = TRUE
    /\ dpc' = "launch"
    /\ UNCHANGED <<witnesses, traceLen, chanCap, i, headerMatched, witnessesToRemove,
                   result, removeFailed, got, registry0, other, errc, cvars>>

\* variant: the mutex is released once the goroutines are launched
HeldAfter_UnlockAfterLaunch(pc) == pc \notin {"recv", "remove", "decide", "done"}

\* defer c.providerMutex.Unlock() (line 40): the state of the mutex after a
\* step that leaves detectDivergence at pc, released when it has returned
HeldAfter(pc) == pc # "done"

\* another user of c.providerMutex (a second detectDivergence call, a change
\* of the registry) that contends with this call: it takes the mutex ...
OtherLock ==
    /\ other = "out"
    /\ dpc # "done"
    /\ providerMutex = FALSE
    /\ providerMutex' = TRUE
    /\ other' = "in"
    /\ UNCHANGED <<witnesses, traceLen, dpc, chanCap, i, headerMatched,
                   witnessesToRemove, result, removeFailed, got, registry0, errc, cvars>>

\* ... and releases it
OtherUnlock ==
    /\ other = "in"
    /\ providerMutex' = FALSE
    /\ other' = "out"
    /\ UNCHANGED <<witnesses, traceLen, dpc, chanCap, i, headerMatched,
                   witnessesToRemove, result, removeFailed, got, registry0, errc, cvars>>

\* variant: the buffer is one short of the number of witnesses
ChanCap_Short(ws) == Len(ws) - 1

\* cap of make(chan error, len(c.witnesses))
ChanCap(ws) == Len(ws)

\* variant: the receive loop stops one iteration early
LoopPc_OffByOne(k, c) == IF k < c - 1 THEN "recv" ELSE "remove"

\* variant: the receive loop waits for one more value than the capacity
LoopPc_OneMore(k, c) == IF k <= c THEN "recv" ELSE "remove"

\* the loop condition i < cap(errc)
LoopPc(k, c) == IF k < c THEN "recv" ELSE "remove"

\* variant: the check for an empty registry is missing
NoWitnesses_Never(ws) == FALSE

\* line 42: len(c.witnesses) == 0
NoWitnesses(ws) == Len(ws) = 0

\* lines 42-51: the empty check, the channel and the goroutines
Launch ==
    /\ dpc = "launch"
    /\ IF NoWitnesses(witnesses)
         THEN /\ result' = ErrNoWitnesses
              /\ providerMutex' = HeldAfter("done")
              /\ dpc' = "done"
              /\ UNCHANGED <<chanCap, cpc>>
         ELSE /\ chanCap' = ChanCap(witnesses)
              /\ cpc' = [w \in Wit |-> IF w \in 1..Len(witnesses) THEN "fetch" ELSE cpc[w]]
              /\ dpc' = LoopPc(0, ChanCap(witnesses))
              /\ providerMutex' = HeldAfter(LoopPc(0, ChanCap(witnesses)))
              /\ UNCHANGED result
    /\ UNCHANGED <<witnesses, traceLen, i, headerMatched, witnessesToRemove,
                   removeFailed, got, registry0, other, errc, lightBlock, err, pend,
                   sent, reqs, waits, hashCmp, latest>>

\* variant: a conflicting header withdraws an earlier match
Handle_Unanimous(e, hm, rem) ==
    IF e.kind = "nil" THEN <<TRUE, rem>>
    ELSE IF e.kind = "errConflictingHeaders" THEN <<FALSE, Append(rem, e.idx)>>
    ELSE IF e.kind = "errBadWitness" /\ e.reason = ErrBadLightBlock
      THEN <<hm, Append(rem, e.idx)>>
    ELSE <<hm, rem>>

\* variant: an errBadWitness queues its witness whatever the reason
Handle_RemoveAnyBad(e, hm, rem) ==
    IF e.kind = "nil" THEN <<TRUE, rem>>
    ELSE IF e.kind \in {"errConflictingHeaders", "errBadWitness"}
      THEN <<hm, Append(rem, e.idx)>>
    ELSE <<hm, rem>>

\* the type switch of lines 57-85 on one received value:
\* the new <<headerMatched, witnessesToRemove>>
Handle(e, hm, rem) ==
    IF e.kind = "nil" THEN <<TRUE, rem>>
    ELSE IF e.kind = "errConflictingHeaders" THEN <<hm, Append(rem, e.idx)>>
    ELSE IF e.kind = "errBadWitness" /\ e.reason = ErrBadLightBlock
      THEN <<hm, Append(rem, e.idx)>>
    ELSE <<hm, rem>>

\* one iteration of the receive loop, lines 54-86
Receive ==
    /\ dpc = "recv"
    /\ errc # <<>>
    /\ LET e == Head(errc).err
           n == Handle(e, headerMatched, witnessesToRemove)
       IN /\ headerMatched' = n[1]
          /\ witnessesToRemove' = n[2]
    /\ errc' = Tail(errc)
    /\ got' = [got EXCEPT ![Head(errc).from] = @ + 1]
    /\ i' = i + 1
    /\ dpc' = LoopPc(i + 1, chanCap)
    /\ providerMutex' = HeldAfter(LoopPc(i + 1, chanCap))
    /\ UNCHANGED <<witnesses, traceLen, chanCap, result, removeFailed, registry0,
                   other, cvars>>

\* the registry without the positions in idxs
RemoveAt(ws, idxs) ==
    LET F[n \in 0..Len(ws)] ==
          IF n = 0 THEN <<>>
          ELSE IF n \in idxs THEN F[n - 1] ELSE Append(F[n - 1], ws[n])
    IN F[Len(ws)]

\* c.removeWitnesses(indexes): removes the batch, or fails and leaves the
\* registry with some of the batch removed
removeWitnesses(ws, indexes) ==
    {[ok |-> TRUE, ws |-> RemoveAt(ws, Range(indexes))]}
      \cup {[ok |-> FALSE, ws |-> RemoveAt(ws, s)] : s \in SUBSET Range(indexes)}

\* variant: the error of removeWitnesses is ignored
PcAfterRemove_Ignore(ok) == "decide"

\* lines 89-91: if err := c.removeWitnesses(...); err != nil { return err }
PcAfterRemove(ok) == IF ok THEN "decide" ELSE "done"

\* lines 89-91; the locals of detectDivergence are gone once it has returned
Remove ==
    /\ dpc = "remove"
    /\ \E r \in removeWitnesses(witnesses, witnessesToRemove) :
         /\ witnesses' = r.ws
         /\ removeFailed' = ~r.ok
         /\ dpc' = PcAfterRemove(r.ok)
         /\ providerMutex' = HeldAfter(PcAfterRemove(r.ok))
         /\ IF PcAfterRemove(r.ok) = "done"
              THEN /\ result' = ErrRemoveWitnesses
                   /\ i' = 0
                   /\ headerMatched' = FALSE
                   /\ witnessesToRemove' = <<>>
              ELSE UNCHANGED <<result, i, headerMatched, witnessesToRemove>>
    /\ UNCHANGED <<traceLen, chanCap, got, registry0, other, errc, cvars>>

\* lines 95-100: the result for headerMatched = hm
TrustDecision(hm) == IF hm THEN Success ELSE ErrFailedHeaderCrossReferencing

Decide ==
    /\ dpc = "decide"
    /\ result' = TrustDecision(headerMatched)
    /\ providerMutex' = HeldAfter("done")
    /\ dpc' = "done"
    /\ i' = 0
    /\ headerMatched' = FALSE
    /\ witnessesToRemove' = <<>>
    /\ UNCHANGED <<witnesses, traceLen, chanCap, removeFailed, got, registry0, other,
                   errc, cvars>>

Next ==
    \/ CheckTrace
    \/ Lock
    \/ Launch
    \/ Receive
    \/ Remove
    \/ Decide
    \/ OtherLock
    \/ OtherUnlock
    \/ \E w \in Wit : Fetch(w)
    \/ \E w \in Wit : Latest(w)
    \/ \E w \in Wit : Target(w)
    \/ \E w \in Wit : Sleep(w)
    \/ \E w \in Wit : Send(w)

Spec == Init /\ [][Next]_vars

\* Scheduling: a goroutine that can run does run, a provider request returns,
\* the sleep elapses, and the other user of the mutex leaves its critical
\* section; c.providerMutex.Lock() is strongly fair, a sync.Mutex hands the
\* mutex to a goroutine that has waited for it (starvation mode)
FairSpec ==
    /\ Spec
    /\ WF_vars(CheckTrace)
    /\ SF_vars(Lock)
    /\ WF_vars(Launch)
    /\ WF_vars(Receive)
    /\ WF_vars(Remove)
    /\ WF_vars(Decide)
    /\ WF_vars(OtherUnlock)
    /\ \A w \in Wit :
          /\ WF_vars(Fetch(w))
          /\ WF_vars(Latest(w))
          /\ WF_vars(Target(w))
          /\ WF_vars(Sleep(w))
          /\ WF_vars(Send(w))

TypeOK ==
    /\ dpc \in {"entry", "lock", "launch", "recv", "remove", "decide", "done"}
    /\ \A w \in Wit : cpc[w] \in {"idle", "fetch", "latest1", "target1", "sleep",
                                  "latest2", "target2", "send", "done"}
    /\ Len(errc) <= chanCap
    /\ other \in {"out", "in"}
    /\ other = "in" => providerMutex
    /\ \A w \in Wit : latest[w] \in Blocks \cup {NoBlock}

\* ===================================================== properties
Returned == dpc = "done"
\* the comparators that were launched, and their number K
Launched == {w \in Wit : cpc[w] # "idle"}
NumLaunched == Cardinality(Launched)
InitialRegistry == [k \in 1..NumLaunched |-> k]
InRegistry(w) == \E k \in 1..Len(witnesses) : witnesses[k] = w
\* the comparator of w has its answer and is sending or has returned
Answered(w) == cpc[w] \in {"send", "done"}
AllDone == \A w \in Launched : cpc[w] = "done"
\* the number of values the detector has received
RECURSIVE SumGot(_)
SumGot(n) == IF n = 0 THEN 0 ELSE got[n] + SumGot(n - 1)
Received == SumGot(MaxWitnesses)
\* the detector received a nil that goroutine v wrote (the channel is FIFO,
\* so the values received from v are the first got[v] it wrote)
ConsumedNil(v) == \E k \in 1..got[v] : k <= Len(sent[v]) /\ sent[v][k] = NilErr
\* the step in which detectDivergence returns after the trust decision
ReturnsDecision == dpc = "decide" /\ dpc' = "done"

\* C1: when every witness has answered and none returned a block at the target
\* height with the primary's hash, detectDivergence returns
\* ErrFailedHeaderCrossReferencing (and never success).
C1_NoMatchFails ==
    [][(/\ ReturnsDecision
        /\ \A w \in Launched : Answered(w) /\ hashCmp[w] # "equal")
         => result' = ErrFailedHeaderCrossReferencing]_vars

\* C2: every witness that has returned a block at the target height with a
\* hash different from the primary's is absent from the registry when
\* detectDivergence returns; the removal did not fail in such a step.
C2_ConflictingRemoved ==
    [][ReturnsDecision
         => \A w \in Launched : hashCmp[w] = "differ" => w \notin Range(witnesses')]_vars

C4_ExactlyOneResult ==
    \A w \in Wit : cpc[w] = "done" => Len(sent[w]) = 1

\* C5: when the detector has left the receive loop, it has received exactly
\* one value from each launched comparator.
C5_OneFromEach ==
    dpc \in {"remove", "decide"} => \A w \in Launched : got[w] = 1

\* C6: the detector never receives more than K values, K being the number
\* of comparators launched; while it receives, and until the removal step, the
\* registry is the one the comparators were launched from; the removal step is
\* reached, and the registry differs from the initial one, only after exactly
\* K values were received.
C6_DrainBeforeMutation ==
    /\ Received <= NumLaunched
    /\ dpc \in {"recv", "remove"} => witnesses = InitialRegistry
    /\ dpc \in {"remove", "decide"} => Received = NumLaunched
    /\ (NumLaunched > 0 /\ witnesses # InitialRegistry) =>
         (dpc \in {"decide", "done"} /\ Received = NumLaunched)

C6_Witness ==
    /\ Returned
    /\ NumLaunched >= 2
    /\ Received = NumLaunched
    /\ Len(witnesses) < NumLaunched

\* C7: a comparator whose provider request failed with ErrBadLightBlock reports
\* errBadWitness with that reason, and its witness is out of the registry once
\* detectDivergence has returned without a removal failure.
C7_BadLightBlockRemoved ==
    \A w \in Wit :
      (cpc[w] = "done" /\ err[w] = ErrBadLightBlock) =>
        /\ sent[w] = <<errBadWitness(ErrBadLightBlock, w)>>
        /\ (Returned /\ ~removeFailed) => ~InRegistry(w)

\* the first request of w failed with ErrNoResponse or ErrLightBlockNotFound
Unresponsive(w) ==
    /\ cpc[w] = "done"
    /\ reqs[w] = 1
    /\ err[w] \in {ErrNoResponse, ErrLightBlockNotFound}

OneMatchRestUnresponsive ==
    \E m \in Launched :
      /\ cpc[m] = "done" /\ hashCmp[m] = "equal"
      /\ \A w \in Launched \ {m} : Unresponsive(w)

\* C8: when one witness returned the matching header and every other witness
\* answered ErrNoResponse or ErrLightBlockNotFound, the registry after the run
\* equals the registry before it, and the call returned success unless
\* removeWitnesses failed.
C8_UnresponsiveKept ==
    (Returned /\ OneMatchRestUnresponsive) =>
      /\ witnesses = InitialRegistry
      /\ ~removeFailed => result = Success

C8_Witness ==
    /\ Returned
    /\ NumLaunched >= 2
    /\ OneMatchRestUnresponsive
    /\ result = Success
    /\ witnesses = InitialRegistry

\* the block w got from the provider is below the target height
Behind(b) == b \in Blocks /\ b.height < lastVerifiedHeader.height

\* C9: a comparator reaches the wait only with a latest block that is below
\* the target height and earlier than the primary's header; a comparator whose
\* answer is a latest block below the target height with a time not before the
\* primary's sends errConflictingHeaders and nothing else, having made two
\* requests and no wait (before the wait) or three requests and one wait
\* (after it).
C9_TimeConflictImmediate ==
    \A w \in Wit :
      /\ cpc[w] = "sleep" =>
           (Behind(lightBlock[w]) /\ lightBlock[w].time < lastVerifiedHeader.time)
      /\ (/\ Answered(w)
          /\ Behind(lightBlock[w])
          /\ lightBlock[w].time >= lastVerifiedHeader.time)
           => /\ sent[w] \o pend[w] = <<errConflictingHeaders(w)>>
              /\ waits[w] \in {0, 1}
              /\ reqs[w] = 2 + waits[w]

C9_Witness ==
    \E w, v \in Launched :
      /\ cpc[w] = "done" /\ Behind(lightBlock[w])
      /\ lightBlock[w].time = lastVerifiedHeader.time
      /\ waits[w] = 0 /\ reqs[w] = 2
      /\ sent[w] = <<errConflictingHeaders(w)>>
      /\ cpc[v] = "done" /\ Behind(lightBlock[v])
      /\ lightBlock[v].time >= lastVerifiedHeader.time
      /\ waits[v] = 1 /\ reqs[v] = 3
      /\ sent[v] = <<errConflictingHeaders(v)>>

\* w answered ErrHeightTooHigh, was behind with an earlier time, and after the
\* wait is still behind with an earlier time
StillBehind(w) ==
    /\ Answered(w)
    /\ waits[w] = 1
    /\ Behind(lightBlock[w])
    /\ lightBlock[w].time < lastVerifiedHeader.time

NoRequests == \A w \in Wit : reqs[w] = 0

\* C11: a primary trace that is nil or shorter than two blocks makes
\* detectDivergence return the input-validation error whatever the registry
\* holds, an empty registry included; it takes no lock, launches no
\* comparator, makes no provider request and leaves the registry as it was.
C11_InvalidTraceRejected ==
    traceLen < MinTraceLen =>
        /\ dpc \in {"entry", "done"}
        /\ Returned => result = ErrInvalidTrace
        /\ Launched = {}
        /\ NoRequests
        /\ witnesses = registry0
        /\ providerMutex => other = "in"

C11_Witness ==
    /\ Returned
    /\ traceLen = 1
    /\ registry0 = <<>>
    /\ result = ErrInvalidTrace

\* C12: with a trace of at least two blocks and an empty registry,
\* detectDivergence returns ErrNoWitnesses, launches no comparator, makes no
\* provider request, and has released the registry lock when it returns.
C12_NoWitnesses ==
    (traceLen >= MinTraceLen /\ registry0 = <<>>) =>
        /\ Launched = {}
        /\ NoRequests
        /\ witnesses = registry0
        /\ dpc \in {"entry", "lock", "launch", "done"}
        /\ Returned => (result = ErrNoWitnesses /\ ~providerMutex)

C12_Witness ==
    /\ Returned
    /\ traceLen >= MinTraceLen
    /\ registry0 = <<>>
    /\ result = ErrNoWitnesses
    /\ ~providerMutex

\* C13: detectDivergence holds the registry lock from before the comparators
\* are launched until it returns: no other user of the lock is inside its
\* critical section during fan-out, fan-in or removal, the registry the
\* removal works on is the one the comparators were launched from, and the
\* lock is free again once detectDivergence has returned.
C13_LockHeldThroughout ==
    /\ dpc \in {"launch", "recv", "remove", "decide"} =>
           (providerMutex /\ other = "out")
    /\ dpc \in {"launch", "recv", "remove"} => witnesses = registry0
    /\ (Returned /\ other = "out") => ~providerMutex

C13_Witness ==
    /\ dpc = "recv"
    /\ NumLaunched >= 2
    /\ Received >= 1
    /\ providerMutex
    /\ other = "out"
    /\ \E w \in Launched : cpc[w] \notin {"send", "done"}

\* C14: detectDivergence does not return, with success or with an error,
\* while a launched comparator has not yet delivered its result: a witness
\* whose provider call never returns keeps the run from completing.
C14_WaitsForEveryComparator ==
    Returned => \A w \in Launched : sent[w] # <<>>

\* the value makes the detector queue its witness for removal (lines 65-82)
Removing(e) ==
    \/ e.kind = "errConflictingHeaders"
    \/ e.kind = "errBadWitness" /\ e.reason = ErrBadLightBlock

\* C15: the outcome and the removed witnesses are a function of the registry
\* and of what the witnesses answered, the same in every interleaving: the
\* result is success exactly when some witness matched, and the witnesses
\* removed are exactly those whose comparator reported a removing result.
C15_OutcomeDetermined ==
    (Returned /\ Launched # {} /\ AllDone /\ ~removeFailed) =>
        /\ result = Success <=> \E w \in Launched : hashCmp[w] = "equal"
        /\ \A w \in Launched : ~InRegistry(w) <=> Removing(sent[w][1])

\* C16: when removeWitnesses returns an error detectDivergence returns that
\* error and never success, also when a witness matched; the trust decision
\* is reached only after the removal has succeeded.
C16_RemovalErrorReturned ==
    /\ removeFailed => (Returned /\ result = ErrRemoveWitnesses)
    /\ dpc = "decide" => ~removeFailed
    /\ result \in {Success, ErrFailedHeaderCrossReferencing} => ~removeFailed

C16_Witness ==
    /\ Returned
    /\ removeFailed
    /\ result = ErrRemoveWitnesses
    /\ \E v \in Launched : hashCmp[v] = "equal" /\ ConsumedNil(v)

\* C17: getTargetBlockOrLatest asks for the latest block first; a latest block
\* at the target height is the result and no further request is made; a
\* latest block above it is followed by exactly one request at the target
\* height, whose block is the result; a latest block below it is returned
\* for the lag analysis with no further request; an error is returned
\* without a block. A block at the target height goes to the hash comparison
\* directly, with no wait after it was obtained.
C17_Reconciliation ==
    \A w \in Wit :
        /\ cpc[w] \in {"latest1", "latest2"} => reqs[w] = 1 + waits[w]
        /\ cpc[w] \in {"target1", "target2"} <=> latest[w] # NoBlock
        /\ cpc[w] \in {"target1", "target2"} =>
               /\ latest[w].height > lastVerifiedHeader.height
               /\ reqs[w] = 2 + waits[w]
               /\ hashCmp[w] = "none"
        /\ (hashCmp[w] # "none" /\ reqs[w] > 1) =>
               /\ Answered(w)
               /\ lightBlock[w].height = lastVerifiedHeader.height
               /\ err[w] = "nil"
               /\ reqs[w] \in {2 + waits[w], 3 + waits[w]}
        /\ (Answered(w) /\ Behind(lightBlock[w])) =>
               (reqs[w] = 2 + waits[w] /\ hashCmp[w] = "none")
        /\ (Answered(w) /\ reqs[w] > 1 /\ err[w] # "nil") =>
               /\ lightBlock[w] = NoBlock
               /\ hashCmp[w] = "none"
               /\ reqs[w] \in {2 + waits[w], 3 + waits[w]}
        /\ cpc[w] = "sleep" => (hashCmp[w] = "none" /\ reqs[w] = 2 /\ waits[w] = 0)

C17_Witness ==
    \E w, v \in Launched :
        /\ cpc[w] = "done" /\ hashCmp[w] # "none"
        /\ reqs[w] = 2 /\ waits[w] = 0
        /\ cpc[v] = "done" /\ hashCmp[v] # "none"
        /\ reqs[v] = 4 /\ waits[v] = 1

C19_Terminates ==
    /\ (traceLen >= MinTraceLen /\ registry0 # <<>>) ~> Returned
    /\ [](\A w \in Wit : reqs[w] <= 5 /\ waits[w] <= 1)

C19_Witness ==
    /\ Returned
    /\ result \in {Success, ErrFailedHeaderCrossReferencing}
    /\ \E w \in Launched : cpc[w] = "done" /\ waits[w] = 1 /\ reqs[w] = 4

\* C20: no comparator stays blocked in a send for ever: when every provider
\* request returns, every launched comparator eventually has written all its
\* values and exited, in every interleaving, also after detectDivergence has
\* returned.
C20_EverySenderExits ==
    \A w \in Wit : (cpc[w] # "idle") ~> (cpc[w] = "done")

C20_Witness ==
    /\ Returned
    /\ AllDone
    /\ NumLaunched >= 2
    /\ errc # <<>>
    /\ \E w \in Launched : Len(sent[w]) = 2 /\ got[w] < 2

====
